---- MODULE Spec2Model ----
(***************************************************************************)
(* Model of the notification coordinator of @devkit-labs/notifier.         *)
(* src/src/index.ts holds two editions of class NotificationManager:       *)
(*   - the simple edition    (lines 29-269,  notify(title, options)),      *)
(*   - the configurable one  (lines 346-667, init(config) plus             *)
(*                            success/error/info/warning/message).         *)
(* The variable `variant` says which edition a behaviour runs.             *)
(*                                                                         *)
(* JavaScript runs one task at a time.  A call of an async method runs     *)
(* synchronously up to its first `await`; what follows the await is a      *)
(* continuation (microtask).  One action of the model is one such          *)
(* synchronous stretch.  Platform events (the permission prompt being      *)
(* answered, the page changing visibility, the user changing the site      *)
(* permission) are tasks: they happen only when no continuation is ready.  *)
(***************************************************************************)
EXTENDS Integers, Sequences, FiniteSets, TLC

VARIABLES
    variant,              \* "simple" | "config": the edition of the class
    supported,            \* "Notification" in window
    platformPermission,   \* Notification.permission
    hidden,               \* document.hidden
    now,                  \* Date.now()
    head,                 \* the <link> elements of document.head, in order
    permissionRequested,  \* NotificationManager.permissionRequested
    permissionPromise,    \* NotificationManager.permissionPromise
    config,               \* NotificationManager.config
    initialized,          \* NotificationManager.initialized
    calls,                \* the trigger calls made so far, by call number
    requestCount,         \* invocations of Notification.requestPermission()
    lastInit              \* the latest call of init: its argument and the
                          \* configuration it found

vars == <<variant, supported, platformPermission, hidden, now, head,
          permissionRequested, permissionPromise, config, initialized,
          calls, requestCount, lastInit>>

(***************************************************************************)
(* Bounds of the model.                                                    *)
(***************************************************************************)
MaxCalls == 2      \* trigger calls in one behaviour
MaxClock == 1      \* Date.now() ranges over 0..MaxClock

CallIds == 1..MaxCalls

(***************************************************************************)
(* Values.  `undefined` and optional booleans are strings, so that an      *)
(* optional field can be compared with any of its values.                  *)
(***************************************************************************)
Undefined == "undefined"
OptBool == {Undefined, "true", "false"}
PermissionState == {"default", "granted", "denied"}
Categories == {"success", "error", "info", "warning"}
Title == "T"

DEFAULT_ICONS ==
    [success |-> "data:success", error |-> "data:error",
     info |-> "data:info", warning |-> "data:warning"]

\* The configuration the constructor installs.
DefaultConfig ==
    [useAlertAsFallback |-> TRUE, alertSound |-> "", icons |-> DEFAULT_ICONS]

\* No call of init yet.
NeverInit == [called |-> FALSE]

\* `init()` without an argument.
NoConfig ==
    [present |-> FALSE, useAlertAsFallback |-> Undefined,
     alertSound |-> Undefined, icons |-> <<>>]

\* The arguments init is called with: none, {}, and two partial configs.
InitArgs ==
    { NoConfig,
      [present |-> TRUE, useAlertAsFallback |-> Undefined,
       alertSound |-> Undefined, icons |-> <<>>],
      [present |-> TRUE, useAlertAsFallback |-> Undefined,
       alertSound |-> "/a.mp3",
       icons |-> [k \in {"success", "error"} |-> "/a/" \o k]],
      [present |-> TRUE, useAlertAsFallback |-> "false",
       alertSound |-> Undefined,
       icons |-> [k \in {"success", "warning"} |->
                     IF k = "success" THEN "/b/success" ELSE ""]] }

\* The options bags a trigger is called with.  body is read by the fallback
\* dialog only and icon by the construction of the notification only, and a
\* call does one of the two: the bags give both or neither.
OptionBags ==
    {o \in [showOnSourceTab : OptBool, silent : {Undefined, "true"},
            body : {Undefined, "B"}, icon : {Undefined, "/call.png"}] :
        (o.body = Undefined) <=> (o.icon = Undefined)}

\* document.head of the page: no link; an icon link without href followed
\* by a shortcut icon.
Origin == "https://app"
Heads ==
    { <<>>,
      <<[rel |-> "icon", type |-> "", href |-> ""],
        [rel |-> "shortcut icon", type |-> "", href |-> "/short.ico"]>> }

(***************************************************************************)
(* A call that has not been made.                                          *)
(***************************************************************************)
NoOptions ==
    [showOnSourceTab |-> Undefined, silent |-> Undefined,
     body |-> Undefined, icon |-> Undefined]

\* pc, ret, permission, result, tag, icon, sound are the call's position and
\* local values; the other fields record what the call was given and what
\* it found and did (trace: the platform primitives it invoked, in order).
IdleCall ==
    [pc |-> "idle", method |-> "none", options |-> NoOptions,
     iconArg |-> Undefined, showOnSourceTab |-> FALSE,
     ret |-> "none", permission |-> "none", result |-> "pending",
     tag |-> -1, icon |-> "none", sound |-> "none",
     trace |-> <<>>, alertMessage |-> <<>>,
     initAtCall |-> FALSE, statusAtCall |-> "none", gateVisible |-> FALSE,
     inFlight |-> FALSE, cfgAtCall |-> DefaultConfig,
     cfgAtResume |-> DefaultConfig, resumeVisible |-> FALSE]

(***************************************************************************)
(* Pure helpers of the class.                                              *)
(***************************************************************************)
\* JavaScript truthiness of an optional boolean / of a string.
Truthy(v) == v = "true"
TruthyString(s) == s # Undefined /\ s # ""

\* isTabVisible(): !document.hidden
isTabVisible(h) == ~h

\* generateUniqueTag(): `notif-${Date.now()}`; the tag is modelled by the
\* clock value it is built from.
generateUniqueTag(t) == t

\* The selectors getFaviconUrl tries, in order (type "" = no type test).
faviconSelectors ==
    << [rel |-> "icon", type |-> ""],
       [rel |-> "shortcut icon", type |-> ""],
       [rel |-> "apple-touch-icon", type |-> ""],
       [rel |-> "icon", type |-> "image/x-icon"],
       [rel |-> "icon", type |-> "image/png"],
       [rel |-> "icon", type |-> "image/svg+xml"] >>

\* document.querySelector(selector): the index of the first link of the
\* head matching the selector, 0 when there is none.
querySelector(hd, sel) ==
    LET hits == {i \in 1..Len(hd) :
                    /\ hd[i].rel = sel.rel
                    /\ (sel.type = "" \/ hd[i].type = sel.type)}
    IN IF hits = {} THEN 0 ELSE CHOOSE i \in hits : \A j \in hits : i <= j

RECURSIVE faviconFrom(_, _)
faviconFrom(hd, i) ==
    IF i > Len(faviconSelectors)
    THEN Origin \o "/favicon.ico"
    ELSE LET q == querySelector(hd, faviconSelectors[i])
         IN IF q # 0 /\ hd[q].href # ""
            THEN hd[q].href
            ELSE faviconFrom(hd, i + 1)

\* getFaviconUrl()
getFaviconUrl(hd) == faviconFrom(hd, 1)

\* Variant of notificationIcon that never uses the icon parameter.
notificationIconFaviconOnly(options, icon, hd) ==
    LET favicon == getFaviconUrl(hd)
    IN IF TruthyString(favicon) THEN favicon ELSE "omitted"

\* Variant of notificationIcon that tests the icon parameter against
\* undefined only: an empty string is used as the icon.
notificationIconEmptyKept(options, icon, hd) ==
    IF icon # Undefined
    THEN icon
    ELSE LET favicon == getFaviconUrl(hd)
         IN IF TruthyString(favicon) THEN favicon ELSE "omitted"

\* The icon field of the notification options; "omitted" when not set.
\* Configurable edition: the `icon` parameter of triggerNotification when
\* truthy, else the favicon.  options.icon is not read.
notificationIcon(options, icon, hd) ==
    IF TruthyString(icon)
    THEN icon
    ELSE LET favicon == getFaviconUrl(hd)
         IN IF TruthyString(favicon) THEN favicon ELSE "omitted"

\* Simple edition: options.icon when not undefined, else the favicon.
notificationIconSimple(options, hd) ==
    IF options.icon # Undefined
    THEN options.icon
    ELSE LET favicon == getFaviconUrl(hd)
         IN IF TruthyString(favicon) THEN favicon ELSE "omitted"

\* Variant of initConfig that merges the icons given with those in force.
initConfigMerged(cfg, old) ==
    IF cfg.present
    THEN [useAlertAsFallback |->
              IF cfg.useAlertAsFallback = Undefined
              THEN TRUE ELSE Truthy(cfg.useAlertAsFallback),
          alertSound |->
              IF cfg.alertSound = Undefined THEN "" ELSE cfg.alertSound,
          icons |-> [k \in Categories |->
                        IF k \in DOMAIN cfg.icons
                        THEN cfg.icons[k] ELSE old.icons[k]]]
    ELSE old

\* The configuration init(config) installs; `old` is kept when no argument
\* is given.
initConfig(cfg, old) ==
    IF cfg.present
    THEN [useAlertAsFallback |->
              IF cfg.useAlertAsFallback = Undefined
              THEN TRUE ELSE Truthy(cfg.useAlertAsFallback),
          alertSound |->
              IF cfg.alertSound = Undefined THEN "" ELSE cfg.alertSound,
          icons |-> [k \in Categories |->
                        IF k \in DOMAIN cfg.icons
                        THEN cfg.icons[k] ELSE DEFAULT_ICONS[k]]]
    ELSE old

\* The text of the fallback dialog, after the fixed prefix.
alertMessage(title, options) ==
    IF TruthyString(options.body) THEN <<title, options.body>> ELSE <<title>>

(***************************************************************************)
(* ensurePermission(), up to its await.  The result says what the call     *)
(* returns at once ("granted", "denied", "default") or that it awaits      *)
(* permissionPromise ("await"), the new values of the two fields, and      *)
(* whether Notification.requestPermission() was invoked.                   *)
(***************************************************************************)
\* Variant of ensurePermission without `if (!this.permissionPromise)`:
\* every caller that finds no settled request issues its own.
ensurePermissionUnshared(sup, perm, requested, promise) ==
    IF ~sup THEN
        [ret |-> "denied", requested |-> requested, promise |-> promise,
         request |-> FALSE]
    ELSE IF perm \in {"granted", "denied"} THEN
        [ret |-> perm, requested |-> requested, promise |-> promise,
         request |-> FALSE]
    ELSE
        [ret |-> "await", requested |-> TRUE,
         promise |-> IF promise = "null" THEN "pending" ELSE promise,
         request |-> promise \in {"null", "pending"}]

\* Variant of ensurePermission without `|| this.permissionPromise`: a caller
\* that finds a request already made does not wait for it.
ensurePermissionNoJoin(sup, perm, requested, promise) ==
    IF ~sup THEN
        [ret |-> "denied", requested |-> requested, promise |-> promise,
         request |-> FALSE]
    ELSE IF perm \in {"granted", "denied"} THEN
        [ret |-> perm, requested |-> requested, promise |-> promise,
         request |-> FALSE]
    ELSE IF ~requested THEN
        [ret |-> "await", requested |-> TRUE,
         promise |-> IF promise = "null" THEN "pending" ELSE promise,
         request |-> promise = "null"]
    ELSE
        [ret |-> perm, requested |-> requested, promise |-> promise,
         request |-> FALSE]

\* Variant of ensurePermission without the `=== "denied"` return.
ensurePermissionReprompt(sup, perm, requested, promise) ==
    IF ~sup THEN
        [ret |-> "denied", requested |-> requested, promise |-> promise,
         request |-> FALSE]
    ELSE IF perm = "granted" THEN
        [ret |-> "granted", requested |-> requested, promise |-> promise,
         request |-> FALSE]
    ELSE IF ~requested \/ promise # "null" THEN
        [ret |-> "await", requested |-> TRUE,
         promise |-> IF promise = "null" THEN "pending" ELSE promise,
         request |-> promise = "null"]
    ELSE
        [ret |-> perm, requested |-> requested, promise |-> promise,
         request |-> FALSE]

\* Variant of ensurePermission that issues a new request when the one it
\* remembers has settled.
ensurePermissionRenew(sup, perm, requested, promise) ==
    IF ~sup THEN
        [ret |-> "denied", requested |-> requested, promise |-> promise,
         request |-> FALSE]
    ELSE IF perm \in {"granted", "denied"} THEN
        [ret |-> perm, requested |-> requested, promise |-> promise,
         request |-> FALSE]
    ELSE
        [ret |-> "await", requested |-> TRUE, promise |-> "pending",
         request |-> promise # "pending"]

ensurePermission(sup, perm, requested, promise) ==
    IF ~sup THEN
        [ret |-> "denied", requested |-> requested, promise |-> promise,
         request |-> FALSE]
    ELSE IF perm = "granted" THEN
        [ret |-> "granted", requested |-> requested, promise |-> promise,
         request |-> FALSE]
    ELSE IF perm = "denied" THEN
        [ret |-> "denied", requested |-> requested, promise |-> promise,
         request |-> FALSE]
    ELSE IF ~requested \/ promise # "null" THEN
        [ret |-> "await", requested |-> TRUE,
         promise |-> IF promise = "null" THEN "pending" ELSE promise,
         request |-> promise = "null"]
    ELSE
        [ret |-> perm, requested |-> requested, promise |-> promise,
         request |-> FALSE]

\* No call of ensurePermission.
noPermissionCall(requested, promise) ==
    [ret |-> "none", requested |-> requested, promise |-> promise,
     request |-> FALSE]

(***************************************************************************)
(* Faults of the platform during one synchronous stretch: the audio        *)
(* engine (new Audio / new AudioContext) throws, speechSynthesis.speak     *)
(* throws, alert throws, new Notification throws.                          *)
(***************************************************************************)
Faults == [engine : BOOLEAN, speech : BOOLEAN, alert : BOOLEAN,
           construct : BOOLEAN]

\* The catch block of playBeepSound: the speech-synthesis last resort.
beepCatch(f) ==
    IF f.speech THEN <<"sound:threw", "speech", "speech:threw">>
    ELSE <<"sound:threw", "speech">>

\* playBeepSound() of the configurable edition, up to `await audio.play()`.
playBeepSound(cfg, f) ==
    IF TruthyString(cfg.alertSound)
    THEN IF f.engine
         THEN [trace |-> <<"sound:custom">> \o beepCatch(f), sound |-> "none"]
         ELSE [trace |-> <<"sound:custom">>, sound |-> "playing"]
    ELSE IF f.engine
         THEN [trace |-> <<"sound:tones">> \o beepCatch(f), sound |-> "none"]
         ELSE [trace |-> <<"sound:tones">>, sound |-> "none"]

\* playBeepSound() of the simple edition: tones only, synchronous.
playBeepSoundSimple(f) ==
    IF f.engine
    THEN [trace |-> <<"sound:tones">> \o beepCatch(f), sound |-> "none"]
    ELSE [trace |-> <<"sound:tones">>, sound |-> "none"]

NoFallback ==
    [trace |-> <<>>, sound |-> "none", shown |-> FALSE, threw |-> FALSE]

\* Variant of showAlertFallback that shows the dialog before the sound.
showAlertFallbackAlertFirst(cfg, options, f) ==
    IF ~cfg.useAlertAsFallback
    THEN NoFallback
    ELSE LET beep == IF ~Truthy(options.silent)
                     THEN playBeepSound(cfg, f)
                     ELSE [trace |-> <<>>, sound |-> "none"]
         IN [trace |-> <<"alert">> \o beep.trace, sound |-> beep.sound,
             shown |-> TRUE, threw |-> f.alert]

\* Variant of showAlertFallback that does not read useAlertAsFallback.
showAlertFallbackAlways(cfg, options, f) ==
    LET beep == IF ~Truthy(options.silent)
                THEN playBeepSound(cfg, f)
                ELSE [trace |-> <<>>, sound |-> "none"]
    IN [trace |-> beep.trace \o <<"alert">>, sound |-> beep.sound,
        shown |-> TRUE, threw |-> f.alert]

\* showAlertFallback(title, options) of the configurable edition.
showAlertFallback(cfg, options, f) ==
    IF ~cfg.useAlertAsFallback
    THEN NoFallback
    ELSE LET beep == IF ~Truthy(options.silent)
                     THEN playBeepSound(cfg, f)
                     ELSE [trace |-> <<>>, sound |-> "none"]
         IN [trace |-> beep.trace \o <<"alert">>, sound |-> beep.sound,
             shown |-> TRUE, threw |-> f.alert]

\* Variant of showAlertFallbackSimple in which a failure of the sound
\* leaves playBeepSound: alert is not reached.
showAlertFallbackSimpleUncaught(options, showOnSourceTab, h, f) ==
    IF showOnSourceTab \/ isTabVisible(h)
    THEN LET beep == IF ~Truthy(options.silent)
                     THEN playBeepSoundSimple(f)
                     ELSE [trace |-> <<>>, sound |-> "none"]
         IN IF \E i \in DOMAIN beep.trace : beep.trace[i] = "sound:threw"
            THEN [trace |-> <<"sound:tones", "sound:threw">>,
                  sound |-> "none", shown |-> FALSE, threw |-> TRUE]
            ELSE [trace |-> beep.trace \o <<"alert">>, sound |-> beep.sound,
                  shown |-> TRUE, threw |-> f.alert]
    ELSE NoFallback

\* showAlertFallback(title, options, showOnSourceTab) of the simple edition.
showAlertFallbackSimple(options, showOnSourceTab, h, f) ==
    IF showOnSourceTab \/ isTabVisible(h)
    THEN LET beep == IF ~Truthy(options.silent)
                     THEN playBeepSoundSimple(f)
                     ELSE [trace |-> <<>>, sound |-> "none"]
         IN [trace |-> beep.trace \o <<"alert">>, sound |-> beep.sound,
             shown |-> TRUE, threw |-> f.alert]
    ELSE NoFallback

\* Variant of effectiveShowOnSourceTab whose default is true.
effectiveShowOnSourceTabDefaultTrue(options) ==
    IF options.showOnSourceTab # Undefined
    THEN Truthy(options.showOnSourceTab)
    ELSE TRUE

\* The effective showOnSourceTab of a call.
effectiveShowOnSourceTab(options) ==
    IF options.showOnSourceTab # Undefined
    THEN Truthy(options.showOnSourceTab)
    ELSE FALSE

effectiveShowOnSourceTabSimple(options) ==
    options.showOnSourceTab # "false"

\* Variant of the gate with the visibility test inverted.
gateSuppressesHidden(showOnSourceTab, h) == ~showOnSourceTab /\ ~isTabVisible(h)

\* The visibility gate: the call returns null at once.
gateSuppresses(showOnSourceTab, h) == ~showOnSourceTab /\ isTabVisible(h)

(***************************************************************************)
(* The rest of a trigger after `await this.ensurePermission()`.            *)
(* `value` is what the await yields: a permission state, or "rejected"     *)
(* when the awaited promise rejects (the await throws).                    *)
(***************************************************************************)
\* Variant of triggerCatch that lets the error escape.
triggerRethrow(call) ==
    [call EXCEPT !.pc = "done", !.result = "rejected"]

\* The catch block around the body of the trigger: log, return null.
triggerCatch(call) ==
    [call EXCEPT !.pc = "done", !.result = "null",
                 !.trace = @ \o <<"catch">>]

\* Variant of afterFallback without the `return null`: the trigger goes on
\* to construct the notification.
afterFallbackFallsThrough(call, value, fb) ==
    [call EXCEPT
        !.permission = value,
        !.trace = @ \o fb.trace \o <<"new Notification">>,
        !.sound = fb.sound,
        !.alertMessage =
            IF fb.shown THEN alertMessage(Title, call.options) ELSE <<>>,
        !.pc = "done", !.result = "handle"]

\* After the fallback: `return null`, unless alert threw (then the catch).
afterFallback(call, value, fb) ==
    LET shown == [call EXCEPT
                    !.permission = value,
                    !.trace = @ \o fb.trace,
                    !.sound = fb.sound,
                    !.alertMessage =
                        IF fb.shown THEN alertMessage(Title, call.options)
                        ELSE <<>>]
    IN IF fb.threw
       THEN triggerCatch(shown)
       ELSE [shown EXCEPT !.pc = "done", !.result = "null"]

\* `new Notification(title, notificationOptions)` and `return notification`.
construct(call, icon, t, f) ==
    LET granted == [call EXCEPT !.permission = "granted",
                                !.trace = @ \o <<"new Notification">>]
    IN IF f.construct
       THEN triggerCatch(granted)
       ELSE [granted EXCEPT !.pc = "done", !.result = "handle",
                            !.tag = generateUniqueTag(t), !.icon = icon]

\* triggerNotification (configurable edition) from the await on.
continueTrigger(call, value, cfg, t, hd, f) ==
    IF value = "rejected"
    THEN triggerCatch([call EXCEPT !.permission = "threw"])
    ELSE IF value # "granted"
    THEN afterFallback(call, value, showAlertFallback(cfg, call.options, f))
    ELSE construct(call, notificationIcon(call.options, call.iconArg, hd), t, f)

\* notify (simple edition) from the await on.
continueNotify(call, value, h, t, hd, f) ==
    IF value = "rejected"
    THEN triggerCatch([call EXCEPT !.permission = "threw"])
    ELSE IF value # "granted"
    THEN afterFallback(call, value,
             showAlertFallbackSimple(call.options, call.showOnSourceTab, h, f))
    ELSE construct(call, notificationIconSimple(call.options, hd), t, f)

(***************************************************************************)
(* State predicates used by the actions.                                   *)
(***************************************************************************)
\* Triggers made one after the other: no other trigger is under way (the
\* call takes the first record).
Sequential(c) ==
    \A d \in CallIds : calls[d].pc = "idle" /\ c <= d

\* The result of every finished trigger has been taken by its caller.
Observed == \A c \in CallIds : calls[c].pc # "done"

\* Overlapping triggers: call c is the next one not yet made.
Overlapping(c) ==
    /\ calls[c].pc = "idle"
    /\ \A d \in CallIds : d < c => calls[d].pc # "idle"

\* What the await of call c yields, once it can resume.
Awaited(c) ==
    IF calls[c].ret = "await" THEN permissionPromise ELSE calls[c].ret

\* Variant of Ready in which a continuation runs only when the awaited
\* request is fulfilled, not when it is rejected.
ReadyFulfilledOnly(c) ==
    /\ calls[c].pc = "await"
    /\ calls[c].ret = "await" => permissionPromise \in PermissionState

\* The continuation of call c is ready to run.
Ready(c) ==
    /\ calls[c].pc = "await"
    /\ calls[c].ret = "await" => permissionPromise # "pending"

\* Call c at the moment its continuation starts: the record notes the
\* configuration and the visibility the continuation runs with.
Resumed(c) ==
    [calls[c] EXCEPT !.cfgAtResume = config,
                     !.resumeVisible = isTabVisible(hidden)]

\* Variant of getPermissionStatus without the capability test.
getPermissionStatusUnguarded == platformPermission

\* getPermissionStatus()
getPermissionStatus == IF ~supported THEN "denied" ELSE platformPermission

\* isSupported()
isSupported == supported

\* No continuation is ready: the next task may run.
NoMicrotask == \A c \in CallIds : ~Ready(c)

(***************************************************************************)
(* Initial states: the state after `new NotificationManager()`.  The       *)
(* constructor of the simple edition calls ensurePermission().             *)
(***************************************************************************)
InitWith(v, s, p, h, hd) ==
    LET ens == IF v = "simple"
               THEN ensurePermission(s, p, FALSE, "null")
               ELSE noPermissionCall(FALSE, "null")
    IN /\ variant = v
       /\ supported = s
       /\ platformPermission = p
       /\ hidden = h
       /\ now = 0
       /\ head = hd
       /\ permissionRequested = ens.requested
       /\ permissionPromise = ens.promise
       /\ config = DefaultConfig
       /\ initialized = FALSE
       /\ calls = [c \in CallIds |-> IdleCall]
       /\ requestCount = IF ens.request THEN 1 ELSE 0
       /\ lastInit = NeverInit

Init ==
    \E v \in {"simple", "config"}, s \in BOOLEAN, p \in PermissionState,
       h \in BOOLEAN, hd \in Heads :
        /\ (~s => p = "default")
        /\ InitWith(v, s, p, h, hd)

(***************************************************************************)
(* Operations of the configurable edition.                                 *)
(***************************************************************************)
\* notifier.init(config?)
init(cfg) ==
    /\ variant = "config"
    /\ LET ens == ensurePermission(supported, platformPermission,
                                   permissionRequested, permissionPromise)
       IN /\ config' = initConfig(cfg, config)
          /\ initialized' = TRUE
          /\ permissionRequested' = ens.requested
          /\ permissionPromise' = ens.promise
          /\ requestCount' = requestCount + (IF ens.request THEN 1 ELSE 0)
    /\ lastInit' = [called |-> TRUE, arg |-> cfg, before |-> config]
    /\ UNCHANGED <<variant, supported, platformPermission, hidden, now, head,
                   calls>>

\* triggerNotification(title, options, icon), up to the await.
triggerNotification(c, method, options, icon) ==
    /\ variant = "config"
    /\ calls[c].pc = "idle"
    /\ LET lazy == IF ~initialized
                   THEN ensurePermission(supported, platformPermission,
                            permissionRequested, permissionPromise)
                   ELSE noPermissionCall(permissionRequested,
                                         permissionPromise)
           showOnSourceTab == effectiveShowOnSourceTab(options)
           suppressed == gateSuppresses(showOnSourceTab, hidden)
           ens == IF suppressed
                  THEN noPermissionCall(lazy.requested, lazy.promise)
                  ELSE ensurePermission(supported, platformPermission,
                                        lazy.requested, lazy.promise)
           started == [IdleCall EXCEPT
                         !.method = method, !.options = options,
                         !.iconArg = icon,
                         !.showOnSourceTab = showOnSourceTab,
                         !.gateVisible = isTabVisible(hidden),
                         !.initAtCall = ~initialized,
                         !.statusAtCall = getPermissionStatus,
                         !.inFlight = ~suppressed /\ ens.promise = "pending",
                         !.cfgAtCall = config,
                         !.trace =
                            (IF lazy.request THEN <<"requestPermission">>
                             ELSE <<>>) \o
                            (IF ens.request THEN <<"requestPermission">>
                             ELSE <<>>)]
       IN /\ initialized' = TRUE
          /\ permissionRequested' = ens.requested
          /\ permissionPromise' = ens.promise
          /\ requestCount' = requestCount
                + (IF lazy.request THEN 1 ELSE 0)
                + (IF ens.request THEN 1 ELSE 0)
          /\ calls' = [calls EXCEPT ![c] =
                IF suppressed
                THEN [started EXCEPT !.pc = "done", !.result = "null"]
                ELSE [started EXCEPT !.pc = "await", !.ret = ens.ret]]
    /\ lastInit' = IF ~initialized
                   THEN [called |-> TRUE, arg |-> NoConfig, before |-> config]
                   ELSE lastInit
    /\ UNCHANGED <<variant, supported, platformPermission, hidden, now, head,
                   config>>

success(c, options) ==
    triggerNotification(c, "success", options, config.icons.success)

error(c, options) ==
    triggerNotification(c, "error", options, config.icons.error)

info(c, options) ==
    triggerNotification(c, "info", options, config.icons.info)

warning(c, options) ==
    triggerNotification(c, "warning", options, config.icons.warning)

message(c, options) ==
    triggerNotification(c, "message", options, Undefined)

\* The continuation of triggerNotification.
resumeTrigger(c, f) ==
    /\ variant = "config"
    /\ Ready(c)
    /\ calls' = [calls EXCEPT ![c] =
                    continueTrigger(Resumed(c), Awaited(c), config, now, head,
                                    f)]
    /\ UNCHANGED <<lastInit, variant, supported, platformPermission, hidden,
                   now, head, permissionRequested, permissionPromise, config,
                   initialized, requestCount>>

\* `await audio.play()` of playBeepSound settles; on rejection the catch
\* block of playBeepSound runs.
playSettles(c, ok, f) ==
    /\ calls[c].sound = "playing"
    /\ calls' = [calls EXCEPT ![c] =
                    IF ok THEN [@ EXCEPT !.sound = "played"]
                    ELSE [@ EXCEPT !.sound = "failed",
                                   !.trace = @ \o beepCatch(f)]]
    /\ UNCHANGED <<lastInit, variant, supported, platformPermission, hidden,
                   now, head, permissionRequested, permissionPromise, config,
                   initialized, requestCount>>

(***************************************************************************)
(* Operations of the simple edition.                                       *)
(***************************************************************************)
\* notify(title, options), up to the await.
notify(c, options) ==
    /\ variant = "simple"
    /\ calls[c].pc = "idle"
    /\ LET showOnSourceTab == effectiveShowOnSourceTabSimple(options)
           suppressed == gateSuppresses(showOnSourceTab, hidden)
           ens == IF suppressed
                  THEN noPermissionCall(permissionRequested,
                                        permissionPromise)
                  ELSE ensurePermission(supported, platformPermission,
                           permissionRequested, permissionPromise)
           started == [IdleCall EXCEPT
                         !.method = "notify", !.options = options,
                         !.showOnSourceTab = showOnSourceTab,
                         !.gateVisible = isTabVisible(hidden),
                         !.statusAtCall = getPermissionStatus,
                         !.inFlight = ~suppressed /\ ens.promise = "pending",
                         !.trace = IF ens.request
                                   THEN <<"requestPermission">> ELSE <<>>]
       IN /\ permissionRequested' = ens.requested
          /\ permissionPromise' = ens.promise
          /\ requestCount' = requestCount + (IF ens.request THEN 1 ELSE 0)
          /\ calls' = [calls EXCEPT ![c] =
                IF suppressed
                THEN [started EXCEPT !.pc = "done", !.result = "null"]
                ELSE [started EXCEPT !.pc = "await", !.ret = ens.ret]]
    /\ UNCHANGED <<lastInit, variant, supported, platformPermission, hidden,
                   now, head,
                   config, initialized>>

\* The continuation of notify.
resumeNotify(c, f) ==
    /\ variant = "simple"
    /\ Ready(c)
    /\ calls' = [calls EXCEPT ![c] =
                    continueNotify(Resumed(c), Awaited(c), hidden, now, head,
                                   f)]
    /\ UNCHANGED <<lastInit, variant, supported, platformPermission, hidden,
                   now, head, permissionRequested, permissionPromise, config,
                   initialized, requestCount>>

\* The caller's continuation takes the result of call c (the promise the
\* trigger returned is settled); the record of the call is dropped.
take(c) ==
    /\ calls[c].pc = "done"
    /\ calls' = [calls EXCEPT ![c] = IdleCall]
    /\ UNCHANGED <<lastInit, variant, supported, platformPermission, hidden,
                   now, head, permissionRequested, permissionPromise, config,
                   initialized, requestCount>>

(***************************************************************************)
(* The platform.                                                           *)
(***************************************************************************)
\* The pending permission request settles: the user answers the prompt
\* (the flag takes the answer), dismisses it ("default"), or the request
\* fails ("rejected").
answerPermission(r) ==
    /\ permissionPromise = "pending"
    /\ NoMicrotask
    /\ permissionPromise' = r
    /\ platformPermission' = IF r = "rejected" THEN platformPermission ELSE r
    /\ UNCHANGED <<lastInit, variant, supported, hidden, now, head,
                   permissionRequested,
                   config, initialized, calls, requestCount>>

\* The user changes the site's notification permission in the browser.
userChangesPermission(p) ==
    /\ supported
    /\ permissionPromise # "pending"
    /\ NoMicrotask
    /\ p # platformPermission
    /\ platformPermission' = p
    /\ UNCHANGED <<lastInit, variant, supported, hidden, now, head,
                   permissionRequested,
                   permissionPromise, config, initialized, calls,
                   requestCount>>

\* The page is hidden or shown.
visibilityChange ==
    /\ NoMicrotask
    /\ hidden' = ~hidden
    /\ UNCHANGED <<lastInit, variant, supported, platformPermission, now, head,
                   permissionRequested, permissionPromise, config,
                   initialized, calls, requestCount>>

\* The clock advances.
tick ==
    /\ now < MaxClock
    /\ now' = now + 1
    /\ UNCHANGED <<lastInit, variant, supported, platformPermission, hidden,
                   head,
                   permissionRequested, permissionPromise, config,
                   initialized, calls, requestCount>>

(***************************************************************************)
(* Spec: the coordinator used with triggers made one after the other,      *)
(* every public method, every options bag, every configuration, every      *)
(* platform fault.  init and the platform events fall anywhere, also       *)
(* while the trigger waits for the permission request.  The caller takes   *)
(* the result of a trigger as soon as the trigger has finished (it is the  *)
(* next continuation to run), so a finished call is looked at in the       *)
(* state the trigger left.                                                 *)
(***************************************************************************)
Next ==
    \/ \E cfg \in InitArgs : Observed /\ init(cfg)
    \/ \E c \in CallIds, o \in OptionBags : Sequential(c) /\ success(c, o)
    \/ \E c \in CallIds, o \in OptionBags : Sequential(c) /\ error(c, o)
    \/ \E c \in CallIds, o \in OptionBags : Sequential(c) /\ info(c, o)
    \/ \E c \in CallIds, o \in OptionBags : Sequential(c) /\ warning(c, o)
    \/ \E c \in CallIds, o \in OptionBags : Sequential(c) /\ message(c, o)
    \/ \E c \in CallIds, f \in Faults : resumeTrigger(c, f)
    \/ \E c \in CallIds, ok \in BOOLEAN, f \in Faults : playSettles(c, ok, f)
    \/ \E c \in CallIds, o \in OptionBags : Sequential(c) /\ notify(c, o)
    \/ \E c \in CallIds, f \in Faults : resumeNotify(c, f)
    \/ \E c \in CallIds : take(c)
    \/ \E r \in PermissionState \cup {"rejected"} :
          Observed /\ answerPermission(r)
    \/ \E p \in PermissionState : Observed /\ userChangesPermission(p)
    \/ Observed /\ visibilityChange

Spec == Init /\ [][Next]_vars

(***************************************************************************)
(* SpecConcurrent: up to MaxCalls overlapping triggers and a ticking       *)
(* clock.  The options are those that steer the control flow; the only     *)
(* fault is the permission request failing.                                *)
(***************************************************************************)
FlowOptionBags ==
    [showOnSourceTab : OptBool, silent : {Undefined},
     body : {Undefined}, icon : {Undefined}]

NoFault ==
    [engine |-> FALSE, speech |-> FALSE, alert |-> FALSE, construct |-> FALSE]

InitConcurrent ==
    \E v \in {"simple", "config"}, p \in PermissionState, h \in BOOLEAN :
        InitWith(v, TRUE, p, h, <<>>)

NextConcurrent ==
    \/ init(NoConfig)
    \/ \E c \in CallIds, o \in FlowOptionBags : Overlapping(c) /\ message(c, o)
    \/ \E c \in CallIds : resumeTrigger(c, NoFault)
    \/ \E c \in CallIds, o \in FlowOptionBags : Overlapping(c) /\ notify(c, o)
    \/ \E c \in CallIds : resumeNotify(c, NoFault)
    \/ \E r \in PermissionState \cup {"rejected"} : answerPermission(r)
    \/ visibilityChange
    \/ tick

SpecConcurrent == InitConcurrent /\ [][NextConcurrent]_vars

\* SpecLive: SpecConcurrent with the scheduling of the platform: a ready
\* continuation is run (the microtask queue is drained), and a pending
\* permission request is settled in the end.
SpecLive ==
    /\ SpecConcurrent
    /\ \A c \in CallIds : WF_vars(resumeTrigger(c, NoFault))
    /\ \A c \in CallIds : WF_vars(resumeNotify(c, NoFault))
    /\ WF_vars(\E r \in PermissionState \cup {"rejected"} :
                  answerPermission(r))

(***************************************************************************)
(* The claims.                                                             *)
(***************************************************************************)
Made(c) == calls[c].pc # "idle"
Done(c) == calls[c].pc = "done"
Occurs(tr, e) == \E i \in DOMAIN tr : tr[i] = e
CueEvents == {"sound:custom", "sound:tones"}
SoundEvents == {"sound:custom", "sound:tones", "sound:threw", "speech",
                "speech:threw"}

\* C1: while the permission flag is 'default' and the first request has not
\* settled, Notification.requestPermission() is invoked exactly once
\* whatever the number of trigger and init calls; every caller that finds
\* the request in flight awaits it instead of issuing another.
C1_OneSharedRequest ==
    /\ requestCount <= 1
    /\ permissionPromise = "pending" => requestCount = 1
    /\ \A c \in CallIds :
          calls[c].inFlight =>
             /\ requestCount = 1
             /\ calls[c].ret = "await"
             /\ Len(SelectSeq(calls[c].trace,
                              LAMBDA e : e = "requestPermission")) <= 1

\* Two triggers wait for the one request in flight.
C1_Witness ==
    \E c, d \in CallIds :
        /\ c # d
        /\ calls[c].pc = "await" /\ calls[c].inFlight
        /\ calls[d].pc = "await" /\ calls[d].inFlight
        /\ permissionPromise = "pending"
        /\ requestCount = 1

\* C2 as claimed: a configurable-edition trigger with effective
\* showOnSourceTab = false on a visible page returns null and invokes no
\* platform primitive (no permission request, no sound, no dialog), in every
\* coordinator state.
C2_SuppressedDoesNothing ==
    \A c \in CallIds :
        (variant = "config" /\ Made(c) /\ ~calls[c].showOnSourceTab
            /\ calls[c].gateVisible)
        => /\ Done(c)
           /\ calls[c].result = "null"
           /\ calls[c].trace = <<>>

\* C2 amended: such a trigger returns null, attempts no sound and shows no
\* dialog; it invokes no permission request when init has run before (by a
\* call of init or by an earlier trigger).  On a coordinator never
\* initialized the init() it runs first may issue the one request.
C2_SuppressedAmended ==
    \A c \in CallIds :
        (variant = "config" /\ Made(c) /\ ~calls[c].showOnSourceTab
            /\ calls[c].gateVisible)
        => /\ Done(c)
           /\ calls[c].result = "null"
           /\ calls[c].permission = "none"
           /\ calls[c].sound = "none"
           /\ calls[c].alertMessage = <<>>
           /\ \A i \in DOMAIN calls[c].trace :
                 calls[c].trace[i] = "requestPermission"
                 /\ calls[c].initAtCall
           /\ Len(calls[c].trace) <= 1

\* An initialized coordinator with the permission request pending
\* suppresses a trigger.
C2_Witness ==
    \E c \in CallIds :
        /\ variant = "config" /\ Done(c)
        /\ ~calls[c].showOnSourceTab /\ calls[c].gateVisible
        /\ ~calls[c].initAtCall
        /\ calls[c].statusAtCall = "default"
        /\ calls[c].trace = <<>>

\* C3: no two notifications constructed by the coordinator carry the same
\* tag.
C3_UniqueTags ==
    \A c, d \in CallIds :
        (c # d /\ calls[c].result = "handle" /\ calls[d].result = "handle")
        => calls[c].tag # calls[d].tag

\* C4: a trigger never ends in an error: whatever fails, its promise
\* resolves to a handle or to null.
C4_NeverRejects ==
    \A c \in CallIds :
        /\ calls[c].result \in {"pending", "null", "handle"}
        /\ Done(c) <=> calls[c].result \in {"null", "handle"}

\* The permission request rejected and the trigger resolved to null.
C4_Witness ==
    \E c \in CallIds :
        /\ Done(c) /\ calls[c].permission = "threw"
        /\ calls[c].result = "null"

\* C5: triggers that pass the gate while the permission request is in
\* flight observe the same outcome, the one of that request: all construct
\* a notification or none does.
C5_SameOutcome ==
    \A c, d \in CallIds :
        (calls[c].inFlight /\ calls[d].inFlight
            /\ calls[c].permission # "none" /\ calls[d].permission # "none")
        => /\ calls[c].permission = calls[d].permission
           /\ permissionPromise # "pending"
           /\ calls[c].permission =
                 IF permissionPromise = "rejected" THEN "threw"
                 ELSE permissionPromise

\* Two triggers that waited for the same request both got 'granted'.
C5_Witness ==
    \E c, d \in CallIds :
        /\ c # d
        /\ calls[c].inFlight /\ calls[d].inFlight
        /\ calls[c].result = "handle" /\ calls[d].result = "handle"

\* The sound is attempted before the dialog.
CueBeforeAlert(tr) ==
    \E i, j \in DOMAIN tr :
        i < j /\ tr[i] \in CueEvents /\ tr[j] = "alert"

\* C6: configurable edition, trigger not suppressed, permission not
\* granted, useAlertAsFallback = true, silent not set: the dialog is shown
\* and the audible cue is attempted before it.
C6_CueThenDialog ==
    \A c \in CallIds :
        (variant = "config" /\ Done(c)
            /\ calls[c].permission \in {"denied", "default"}
            /\ calls[c].cfgAtResume.useAlertAsFallback
            /\ ~Truthy(calls[c].options.silent))
        => /\ CueBeforeAlert(calls[c].trace)
           /\ calls[c].alertMessage # <<>>

\* Permission denied, custom sound started, then the dialog.
C6_Witness ==
    \E c \in CallIds :
        /\ variant = "config" /\ Done(c)
        /\ calls[c].permission = "denied"
        /\ ~Truthy(calls[c].options.silent)
        /\ calls[c].trace = <<"sound:custom", "alert">>

\* C7: a trigger passes the gate, finds permission denied and takes the
\* fallback path (always in the simple edition, with useAlertAsFallback in
\* the configurable edition) with silent = true: the dialog is shown and no
\* audible cue of any kind is attempted during the call.
C7_SilentDialogNoCue ==
    \A c \in CallIds :
        (Done(c) /\ calls[c].permission = "denied"
            /\ Truthy(calls[c].options.silent)
            /\ (variant = "config" => calls[c].cfgAtResume.useAlertAsFallback))
        => /\ \A i \in DOMAIN calls[c].trace :
                 calls[c].trace[i] \notin SoundEvents
           /\ calls[c].sound = "none"
           /\ Occurs(calls[c].trace, "alert")
           /\ calls[c].alertMessage # <<>>

\* C8: configurable edition, default configuration: when permission is
\* denied every category call shows an alert dialog with the title and the
\* body, also without showOnSourceTab and whatever the visibility.
C8_AlertWheneverDenied ==
    \A c \in CallIds :
        (variant = "config" /\ Done(c)
            /\ calls[c].statusAtCall = "denied"
            /\ calls[c].cfgAtCall = DefaultConfig
            /\ config = DefaultConfig)
        => calls[c].alertMessage = alertMessage(Title, calls[c].options)

\* C9: simple edition, permission not granted, showOnSourceTab = false:
\* the fallback alert is shown only while the page is hidden.
C9_AlertOnlyWhenHidden ==
    \A c \in CallIds :
        (variant = "simple" /\ Done(c)
            /\ calls[c].options.showOnSourceTab = "false"
            /\ calls[c].permission \in {"denied", "default"})
        => (calls[c].alertMessage # <<>> => ~calls[c].resumeVisible)

\* The precedence C10 claims: per-call icon, category icon, favicon.
claimedIcon(perCall, categoryIcon, favicon) ==
    IF perCall # Undefined THEN perCall
    ELSE IF TruthyString(categoryIcon) THEN categoryIcon
    ELSE IF TruthyString(favicon) THEN favicon
    ELSE "omitted"

\* C10 as claimed: the icon of every constructed notification is the
\* per-call icon, else the category icon, else the favicon, else omitted.
C10_IconPrecedence ==
    \A c \in CallIds :
        calls[c].result = "handle"
        => calls[c].icon = claimedIcon(calls[c].options.icon,
                                       calls[c].iconArg, getFaviconUrl(head))

\* C10 amended: the configurable edition does not read an icon of the
\* call's options: its icon is the non-empty category icon, else the
\* favicon; the simple edition (no category icon) takes the per-call icon,
\* else the favicon.  The favicon always yields a value, so the icon is
\* never omitted.
C10_IconAmended ==
    \A c \in CallIds :
        calls[c].result = "handle"
        => /\ calls[c].icon =
                 IF variant = "config"
                 THEN claimedIcon(Undefined, calls[c].iconArg,
                                  getFaviconUrl(head))
                 ELSE claimedIcon(calls[c].options.icon, Undefined,
                                  getFaviconUrl(head))
           /\ calls[c].icon # "omitted"

\* A category notification built from a call that gave an icon of its own.
C10_Witness ==
    \E c \in CallIds :
        /\ variant = "config" /\ calls[c].result = "handle"
        /\ calls[c].options.icon # Undefined
        /\ TruthyString(calls[c].iconArg)
        /\ calls[c].icon = calls[c].iconArg

\* The icon map the claims expect after init(arg): the icons arg gives, the
\* built-in icon for every other category.
iconsGiven(arg) ==
    [k \in Categories |->
        IF k \in DOMAIN arg.icons THEN arg.icons[k] ELSE DEFAULT_ICONS[k]]

\* C11: after init(A) and then init(B), both with a config, the icons in
\* force are B's for the categories B gives and the built-in ones for the
\* others; every category method called from then on passes that icon and
\* a notification it constructs carries it (the favicon when it is empty).
C11_SecondInitReplacesIcons ==
    (lastInit.called /\ lastInit.arg.present)
    => /\ config.icons = iconsGiven(lastInit.arg)
       /\ \A c \in CallIds :
             (Made(c) /\ calls[c].method \in Categories
                 /\ calls[c].cfgAtCall = config)
             => /\ calls[c].iconArg = iconsGiven(lastInit.arg)[calls[c].method]
                /\ calls[c].result = "handle" =>
                      calls[c].icon =
                         IF TruthyString(calls[c].iconArg)
                         THEN calls[c].iconArg ELSE getFaviconUrl(head)

\* init(A) gave an error icon, init(B) gave icons without one; notify.error
\* called under B's configuration built a notification with the built-in
\* error icon.
C11_Witness ==
    /\ lastInit.called /\ lastInit.arg.present
    /\ lastInit.arg.icons # <<>>
    /\ "error" \notin DOMAIN lastInit.arg.icons
    /\ lastInit.before.icons.error = "/a/error"
    /\ \E c \in CallIds :
          /\ calls[c].method = "error" /\ calls[c].result = "handle"
          /\ calls[c].cfgAtCall = config
          /\ calls[c].icon = DEFAULT_ICONS.error

\* C12: every call of init replaces the configuration, also a call with no
\* argument: after init() the configuration in force is the default one,
\* whatever configuration the call found.
C12_InitWithoutConfigResets ==
    (lastInit.called /\ ~lastInit.arg.present) => config = DefaultConfig

\* The platform flag is terminal or the capability is absent.
Decided == ~supported \/ platformPermission \in {"granted", "denied"}

\* C13: requestPermission is never invoked while the platform flag is
\* 'granted' or 'denied' or the capability is absent (by the constructor,
\* by init or by a trigger); a trigger that passes the gate in such a state
\* decides from the flag alone.
C13_NoRepromptWhenDecided ==
    /\ requestCount > 0 => ~Decided
    /\ [][ /\ requestCount' # requestCount => ~Decided
           /\ \A c \in CallIds :
                 (Decided /\ calls[c].pc = "idle" /\ calls'[c].pc # "idle")
                 => /\ calls'[c].trace = <<>>
                    /\ calls'[c].pc = "await" =>
                          calls'[c].ret = getPermissionStatus ]_vars

\* The user denied the one prompt; a later trigger took the not-granted
\* path without a second request.
C13_Witness ==
    /\ supported /\ platformPermission = "denied"
    /\ permissionPromise = "denied" /\ requestCount = 1
    /\ \E c \in CallIds :
          /\ Done(c) /\ calls[c].statusAtCall = "denied"
          /\ calls[c].permission = "denied"

\* C14: a trigger that starts when no permission request is in flight
\* decides from the platform flag as it is then: the permission it acts on
\* is the flag, and it constructs a notification only if the flag is
\* 'granted'.
C14_DecisionIsCurrentFlag ==
    \A c \in CallIds :
        (Made(c) /\ ~calls[c].inFlight
            /\ calls[c].permission \in PermissionState)
        => /\ calls[c].permission = calls[c].statusAtCall
           /\ calls[c].result = "handle" => calls[c].statusAtCall = "granted"

\* C15: configurable edition: a trigger that finds permission not granted
\* while useAlertAsFallback is false returns null, shows no dialog and
\* attempts no audible cue, whatever silent and showOnSourceTab are.
C15_NoFallbackWhenDisabled ==
    \A c \in CallIds :
        (variant = "config" /\ Done(c)
            /\ calls[c].permission \in {"denied", "default"}
            /\ ~calls[c].cfgAtResume.useAlertAsFallback)
        => /\ calls[c].result = "null"
           /\ calls[c].alertMessage = <<>>
           /\ calls[c].sound = "none"
           /\ \A i \in DOMAIN calls[c].trace :
                 calls[c].trace[i] \notin SoundEvents \cup {"alert"}

\* Permission denied, useAlertAsFallback false, silent not set, page hidden.
C15_Witness ==
    \E c \in CallIds :
        /\ variant = "config" /\ Done(c)
        /\ calls[c].permission = "denied"
        /\ ~calls[c].cfgAtResume.useAlertAsFallback
        /\ ~Truthy(calls[c].options.silent)
        /\ ~calls[c].gateVisible
        /\ calls[c].result = "null"

\* The gate returned null for call c: ensurePermission was not reached.
Suppressed(c) == Done(c) /\ calls[c].ret = "none"

C17_Queries ==
    /\ ~supported => (~isSupported /\ getPermissionStatus = "denied")
    /\ supported => (isSupported /\ getPermissionStatus = platformPermission)

\* Capability absent, init called, a trigger finished.
C17_Witness ==
    /\ ~supported /\ initialized /\ lastInit.called
    /\ getPermissionStatus = "denied" /\ ~isSupported
    /\ \E c \in CallIds : Done(c) /\ calls[c].permission = "denied"

\* C18: when the audible cue fails (the audio engine throws, the custom
\* sound's playback is rejected, and also when the speech last resort
\* throws), the dialog is still shown and the trigger resolves to null.
C18_DialogDespiteAudioFailure ==
    \A c \in CallIds :
        (Done(c)
            /\ (Occurs(calls[c].trace, "sound:threw")
                \/ calls[c].sound = "failed"))
        => /\ Occurs(calls[c].trace, "alert")
           /\ calls[c].alertMessage # <<>>
           /\ calls[c].result = "null"

\* Tone synthesis threw, the speech last resort threw, the dialog followed.
C18_Witness ==
    \E c \in CallIds :
        /\ Done(c) /\ calls[c].result = "null"
        /\ calls[c].trace = <<"sound:tones", "sound:threw", "speech",
                              "speech:threw", "alert">>

\* The hrefs of the head's links and the fallback address.
faviconCandidates ==
    {head[j].href : j \in 1..Len(head)} \cup {Origin \o "/favicon.ico"}

\* C19: configurable edition: a notification constructed by success, error,
\* info or warning carries the icon configured for that category when the
\* method was called; one constructed by message, or by a category whose
\* configured icon is the empty string, carries the detected favicon.
C19_CategoryIcons ==
    \A c \in CallIds :
        (variant = "config" /\ calls[c].result = "handle")
        => LET m == calls[c].method
               configured == IF m \in Categories
                             THEN calls[c].cfgAtCall.icons[m] ELSE ""
           IN /\ configured # "" => calls[c].icon = configured
              /\ configured = "" =>
                    /\ calls[c].icon = getFaviconUrl(head)
                    /\ calls[c].icon \in faviconCandidates \ {""}
                    /\ head = <<>> =>
                          calls[c].icon = Origin \o "/favicon.ico"

\* notify.warning with the warning icon configured as the empty string
\* built a notification with the favicon of the head's shortcut-icon link.
C19_Witness ==
    \E c \in CallIds :
        /\ variant = "config" /\ calls[c].result = "handle"
        /\ calls[c].method = "warning"
        /\ calls[c].cfgAtCall.icons.warning = ""
        /\ calls[c].icon = "/short.ico"

\* C20: every trigger that has started and waits at its await finishes:
\* once the permission request has settled, fulfilled or rejected, each
\* waiting trigger resolves to a handle or null.
C20_TriggersFinish ==
    \A c \in CallIds :
        (calls[c].pc = "await")
        ~> (calls[c].pc = "done" /\ calls[c].result \in {"handle", "null"})

\* Two triggers waited for the same request; it was denied; both finished.
C20_Witness ==
    \E c, d \in CallIds :
        /\ c # d
        /\ calls[c].inFlight /\ calls[d].inFlight
        /\ Done(c) /\ Done(d)
        /\ calls[c].permission = "denied" /\ calls[d].permission = "denied"

\* C21: configurable edition: the fallback dialog of a trigger whose
\* effective showOnSourceTab is false is never shown while the page is
\* visible, also when the visibility changed while the trigger waited for
\* the permission request.
C21_NoDialogWhileVisible ==
    \A c \in CallIds :
        (variant = "config" /\ ~calls[c].showOnSourceTab
            /\ calls[c].alertMessage # <<>>)
        => ~calls[c].resumeVisible

\* What a trigger awaiting the settled request gets from it.
settledOutcome ==
    IF permissionPromise = "rejected" THEN "threw" ELSE permissionPromise

\* C22: over the lifetime of a coordinator requestPermission is invoked at
\* most once.  A trigger that passes the gate after the request has
\* settled, with the platform flag still 'default', issues no request and
\* acts on the outcome of the settled request.
C22_OneRequestPerLifetime ==
    /\ requestCount <= 1
    /\ permissionPromise # "null" => requestCount = 1
    /\ \A c \in CallIds :
          (Made(c) /\ calls[c].ret = "await" /\ ~calls[c].inFlight)
          => /\ requestCount = 1
             /\ permissionPromise \notin {"null", "pending"}
             /\ calls[c].statusAtCall = "default"
             /\ ~Occurs(calls[c].trace, "requestPermission")
             /\ Done(c) => calls[c].permission = settledOutcome

\* The prompt was dismissed; a trigger made afterwards, the flag still
\* 'default', took the not-granted path without a second request.
C22_Witness ==
    /\ supported /\ platformPermission = "default"
    /\ permissionPromise = "default" /\ requestCount = 1
    /\ \E c \in CallIds :
          /\ Done(c) /\ ~calls[c].inFlight /\ calls[c].ret = "await"
          /\ calls[c].permission = "default"

DialogEnabled(c) ==
    IF variant = "config"
    THEN calls[c].cfgAtResume.useAlertAsFallback
    ELSE calls[c].showOnSourceTab

\* C24: a trigger that passed the gate and ends without a notification
\* because permission was not obtained (denied, dismissed, or the request
\* failed) shows the fallback dialog before it resolves to null.
C24_FallbackWhenNoPermission ==
    \A c \in CallIds :
        (Done(c) /\ ~Suppressed(c)
            /\ calls[c].permission \in {"denied", "default", "threw"}
            /\ DialogEnabled(c))
        => /\ Occurs(calls[c].trace, "alert")
           /\ calls[c].result = "null"

\* The number of times a call invoked a platform primitive.
Times(tr, e) == Len(SelectSeq(tr, LAMBDA x : x = e))

\* C25: a trigger has at most one visible effect and its result matches
\* it: it never both shows the dialog and constructs a notification; it
\* resolves to a handle only if it constructed exactly one notification;
\* if it showed the dialog or was suppressed by the gate it resolves to
\* null.
C25_OneEffect ==
    \A c \in CallIds :
        LET dialogs == Times(calls[c].trace, "alert")
            built == Times(calls[c].trace, "new Notification")
        IN /\ dialogs + built <= 1
           /\ calls[c].alertMessage # <<>> <=> dialogs = 1
           /\ calls[c].result = "handle" => (built = 1 /\ dialogs = 0)
           /\ (Done(c) /\ (dialogs = 1 \/ Suppressed(c)))
              => calls[c].result = "null"
           /\ Suppressed(c) => dialogs + built = 0

\* A trigger showed the dialog, constructed nothing and resolved to null.
C25_Witness ==
    \E c \in CallIds :
        /\ Done(c) /\ calls[c].result = "null"
        /\ Times(calls[c].trace, "alert") = 1
        /\ Times(calls[c].trace, "new Notification") = 0
        /\ calls[c].permission = "default"

====
